---- MODULE Spec2Model ----
(***************************************************************************)
(* The in-memory task store of the ToDo API (Eisenhower matrix):           *)
(* tasks_db (src/main.py) and the handlers of src/routers/tasks.py.        *)
(* Each handler is an `async def` without an await in its body, so one     *)
(* request is one atomic step over the shared list.                        *)
(***************************************************************************)
EXTENDS Integers, Sequences, FiniteSets

VARIABLES
    tasks_db,   \* the list of task dicts, in list order
    now,        \* the value datetime.now() returns at this moment
    created,    \* history: the ids returned by create_task, oldest first
    served,     \* how many POST, PUT and PATCH requests were answered with success
    running     \* the handler coroutines that have started and not returned

vars == <<tasks_db, now, created, served, running>>

----------------------------------------------------------------------------
\* Bounds of the exploration

\* POST, PUT and PATCH requests answered with success in one run
MaxWrites == 2
\* distinct later values of datetime.now()
MaxClock == 1
\* fields one PUT body sets
MaxPatchFields == 2

----------------------------------------------------------------------------
\* Values

\* Python's None as the value of a key that is present
Null == "None"

\* a dict key that is absent / a value that is present: <<>> or <<v>>
Absent == <<>>
Some(v) == <<v>>

\* the four seeded tasks (completed_at is not a key of any of them)
SeedTasks ==
    << [id |-> 1, title |-> "t1", description |-> "d1",
        is_important |-> TRUE, is_urgent |-> TRUE, quadrant |-> "Q1",
        completed |-> FALSE, created_at |-> 0, completed_at |-> Absent],
       [id |-> 2, title |-> "t2", description |-> "d2",
        is_important |-> TRUE, is_urgent |-> FALSE, quadrant |-> "Q2",
        completed |-> FALSE, created_at |-> 0, completed_at |-> Absent],
       [id |-> 3, title |-> "t3", description |-> Null,
        is_important |-> FALSE, is_urgent |-> TRUE, quadrant |-> "Q3",
        completed |-> FALSE, created_at |-> 0, completed_at |-> Absent],
       [id |-> 4, title |-> "t4", description |-> "d4",
        is_important |-> FALSE, is_urgent |-> FALSE, quadrant |-> "Q4",
        completed |-> TRUE, created_at |-> 0, completed_at |-> Absent] >>

\* request inputs
Titles == {"X"}
Descriptions == {Null, "D"}

\* the body of POST /tasks/ (TaskCreate)
TaskCreate ==
    [title : Titles, description : Descriptions,
     is_important : BOOLEAN, is_urgent : BOOLEAN]

\* the fields PUT /tasks/{id} can carry (TaskUpdate)
PatchFields == {"title", "description", "is_important", "is_urgent", "completed"}

Opt(S) == {Absent} \cup {Some(v) : v \in S}

\* the body of PUT /tasks/{id}: every field is unset or set (exclude_unset)
TaskUpdate ==
    {p \in [title : Opt(Titles), description : Opt(Descriptions),
            is_important : Opt(BOOLEAN), is_urgent : Opt(BOOLEAN),
            completed : Opt(BOOLEAN)] :
        Cardinality({f \in PatchFields : p[f] # Absent}) <= MaxPatchFields}

\* the ids a request can name: every id the store can hold, and one beyond
TaskIds == 1 .. (Len(SeedTasks) + MaxWrites + 1)

----------------------------------------------------------------------------
\* Helpers of the handlers

\* the if/elif chain that derives the quadrant
Quadrant(is_important, is_urgent) ==
    IF is_important /\ is_urgent THEN "Q1"
    ELSE IF is_important /\ ~is_urgent THEN "Q2"
    ELSE IF ~is_important /\ is_urgent THEN "Q3"
    ELSE "Q4"

\* next((task for task in db if task["id"] == task_id), None): the index of
\* the first match, 0 for None
Find(db, task_id) ==
    IF \E i \in 1 .. Len(db) : db[i].id = task_id
    THEN CHOOSE i \in 1 .. Len(db) :
            /\ db[i].id = task_id
            /\ \A j \in 1 .. (i - 1) : db[j].id # task_id
    ELSE 0

\* variant: the next id taken from the length of the list
MaxId_len(db) == Len(db)

\* max([t["id"] for t in db], default=0)
MaxId(db) ==
    IF Len(db) = 0 THEN 0
    ELSE CHOOSE m \in {db[i].id : i \in 1 .. Len(db)} :
            \A i \in 1 .. Len(db) : db[i].id <= m

\* variant: del db[task_id - 1], the id taken for the position
Remove_by_position(db, x) ==
    LET i == IF x.id <= Len(db) THEN x.id ELSE Len(db)
    IN  [k \in 1 .. (Len(db) - 1) |-> IF k < i THEN db[k] ELSE db[k + 1]]

\* list.remove(x): drops the first element equal to x
Remove(db, x) ==
    LET i == CHOOSE k \in 1 .. Len(db) :
                 /\ db[k] = x
                 /\ \A j \in 1 .. (k - 1) : db[j] # x
    IN  [k \in 1 .. (Len(db) - 1) |-> IF k < i THEN db[k] ELSE db[k + 1]]

\* variant: model_dump() without exclude_unset, an unset description
\* arrives as None and is written
ApplyPatch_unset_description(task, patch) ==
    [f \in DOMAIN task |->
        IF f \in PatchFields /\ patch[f] # Absent THEN patch[f][1]
        ELSE IF f = "description" THEN Null ELSE task[f]]

\* for field, value in update_data.items(): task[field] = value
ApplyPatch(task, patch) ==
    [f \in DOMAIN task |->
        IF f \in PatchFields /\ patch[f] # Absent THEN patch[f][1] ELSE task[f]]

\* variant: the recomputation is keyed on is_important alone
Recompute_important_only(task, patch) ==
    IF patch.is_important # Absent
    THEN [task EXCEPT !.quadrant = Quadrant(task.is_important, task.is_urgent)]
    ELSE task

\* step 3 of update_task: the quadrant is recomputed when a flag was sent
Recompute(task, patch) ==
    IF patch.is_important # Absent \/ patch.is_urgent # Absent
    THEN [task EXCEPT !.quadrant = Quadrant(task.is_important, task.is_urgent)]
    ELSE task

\* variant: a task that is already completed is left as it is
Completed_once(task, t) ==
    IF task.completed = TRUE THEN task
    ELSE [task EXCEPT !.completed = TRUE, !.completed_at = Some(t)]

\* variant: the timestamp is written, the flag is not
Completed_stamp_only(task, t) ==
    [task EXCEPT !.completed_at = Some(t)]

\* complete_task's two assignments
Completed(task, t) ==
    [task EXCEPT !.completed = TRUE, !.completed_at = Some(t)]

\* the dict create_task builds
NewTask(task, new_id, t) ==
    [id |-> new_id, title |-> task.title,
     description |-> task.description,
     is_important |-> task.is_important,
     is_urgent |-> task.is_urgent,
     quadrant |-> Quadrant(task.is_important, task.is_urgent),
     completed |-> FALSE, created_at |-> t,
     completed_at |-> Absent]

\* steps 2 and 3 of update_task on the dict at position i
PatchedAt(db, i, task_update) ==
    [db EXCEPT ![i] = Recompute(ApplyPatch(db[i], task_update), task_update)]

----------------------------------------------------------------------------
\* The handlers

Init ==
    /\ tasks_db = SeedTasks
    /\ now = 0
    /\ created = <<>>
    /\ served = 0
    /\ running = {}

\* datetime.now() moves on between requests
Tick ==
    /\ now < MaxClock
    /\ now' = now + 1
    /\ UNCHANGED <<tasks_db, created, served, running>>

\* POST /tasks/
create_task(task) ==
    /\ served < MaxWrites
    /\ LET new_id == MaxId(tasks_db) + 1
       IN  /\ tasks_db' = Append(tasks_db, NewTask(task, new_id, now))
           /\ created' = Append(created, new_id)
    /\ served' = served + 1
    /\ UNCHANGED <<now, running>>

\* steps 1 to 3 of update_task on the list: the task found is patched in
\* place and its quadrant recomputed; a list without the id is left alone
Updated(db, task_id, task_update) ==
    LET i == Find(db, task_id) IN
    IF i = 0 THEN db ELSE PatchedAt(db, i, task_update)

\* PUT /tasks/{task_id}
update_task(task_id, task_update) ==
    LET i == Find(tasks_db, task_id) IN
    /\ served < MaxWrites
    /\ IF i = 0
       THEN UNCHANGED vars
       ELSE
         /\ tasks_db' = Updated(tasks_db, task_id, task_update)
         /\ served' = served + 1
         /\ UNCHANGED <<now, created, running>>

\* PATCH /tasks/{task_id}/complete
complete_task(task_id) ==
    LET i == Find(tasks_db, task_id) IN
    /\ served < MaxWrites
    /\ IF i = 0
       THEN UNCHANGED vars
       ELSE
         /\ tasks_db' = [tasks_db EXCEPT
                ![i] = Completed(tasks_db[i], now)]
         /\ served' = served + 1
         /\ UNCHANGED <<now, created, running>>

\* DELETE /tasks/{task_id}
delete_task(task_id) ==
    LET i == Find(tasks_db, task_id) IN
    IF i = 0
    THEN UNCHANGED vars
    ELSE /\ tasks_db' = Remove(tasks_db, tasks_db[i])
         /\ UNCHANGED <<now, created, served, running>>

\* GET /tasks/{task_id}: the task, or 404
get_task_by_id(db, task_id) ==
    LET i == Find(db, task_id) IN
    IF i = 0 THEN [status |-> 404, task |-> Absent]
    ELSE [status |-> 200, task |-> Some(db[i])]

\* GET /tasks
get_all_tasks(db) == [count |-> Len(db), tasks |-> db]

\* variant: a task counts as completed when it carries completed_at
get_tasks_stats_by_timestamp(db) ==
    LET total_tasks == Len(db)
        count(q) == Cardinality({i \in 1 .. Len(db) : db[i].quadrant = q})
        completed == Cardinality({i \in 1 .. Len(db) : db[i].completed_at # Absent})
    IN  [total_tasks |-> total_tasks,
         by_quadrant |-> [q \in {"Q1", "Q2", "Q3", "Q4"} |-> count(q)],
         by_status |-> [completed |-> completed,
                        pending |-> total_tasks - completed]]

\* GET /tasks/stats
get_tasks_stats(db) ==
    LET total_tasks == Len(db)
        count(q) == Cardinality({i \in 1 .. Len(db) : db[i].quadrant = q})
        completed == Cardinality({i \in 1 .. Len(db) : db[i].completed = TRUE})
    IN  [total_tasks |-> total_tasks,
         by_quadrant |-> [q \in {"Q1", "Q2", "Q3", "Q4"} |-> count(q)],
         by_status |-> [completed |-> completed,
                        pending |-> total_tasks - completed]]

Next ==
    \/ Tick
    \/ \E task \in TaskCreate : create_task(task)
    \/ \E task_id \in TaskIds, task_update \in TaskUpdate :
          update_task(task_id, task_update)
    \/ \E task_id \in TaskIds : complete_task(task_id)
    \/ \E task_id \in TaskIds : delete_task(task_id)

Spec == Init /\ [][Next]_vars

----------------------------------------------------------------------------
\* The same handlers statement by statement, as the event loop runs them:
\* a handler starts with its read of the list (the max of the ids, or the
\* lookup by id) and returns with its write. A request waiting for the loop
\* is any request of the input sets.

\* what a handler holds between its read and its write
NoTask ==
    [title |-> "", description |-> Null,
     is_important |-> FALSE, is_urgent |-> FALSE]

NoPatch ==
    [title |-> Absent, description |-> Absent, is_important |-> Absent,
     is_urgent |-> Absent, completed |-> Absent]

Frame(op, task_id, task, task_update, read) ==
    [op |-> op, task_id |-> task_id, task |-> task,
     task_update |-> task_update, read |-> read]

\* variant: the handlers run on threads, one may start while another is
\* between two statements
LoopFree_threads == TRUE

\* every handler is an async def whose body has no await: the event loop
\* runs it from its first statement to its return before it starts another
LoopFree == running = {}

\* create_task up to new_id = max(...) + 1
create_begin(task) ==
    /\ LoopFree
    /\ served < MaxWrites
    /\ running' = running \cup
          {Frame("create", 0, task, NoPatch, MaxId(tasks_db) + 1)}
    /\ UNCHANGED <<tasks_db, now, created, served>>

\* create_task from new_task = {...} to the return
create_end(f) ==
    /\ f.op = "create"
    /\ tasks_db' = Append(tasks_db, NewTask(f.task, f.read, now))
    /\ created' = Append(created, f.read)
    /\ served' = served + 1
    /\ running' = running \ {f}
    /\ UNCHANGED now

\* update_task up to the 404 check
update_begin(task_id, task_update) ==
    /\ LoopFree
    /\ served < MaxWrites
    /\ LET i == Find(tasks_db, task_id) IN
       IF i = 0
       THEN UNCHANGED vars
       ELSE /\ running' = running \cup
                  {Frame("update", task_id, NoTask, task_update, i)}
            /\ UNCHANGED <<tasks_db, now, created, served>>

\* update_task from step 2 to the return; the dict the lookup returned is
\* the one at the position read
update_end(f) ==
    /\ f.op = "update"
    /\ tasks_db' = PatchedAt(tasks_db, f.read, f.task_update)
    /\ served' = served + 1
    /\ running' = running \ {f}
    /\ UNCHANGED <<now, created>>

\* complete_task up to the 404 check
complete_begin(task_id) ==
    /\ LoopFree
    /\ served < MaxWrites
    /\ LET i == Find(tasks_db, task_id) IN
       IF i = 0
       THEN UNCHANGED vars
       ELSE /\ running' = running \cup
                  {Frame("complete", task_id, NoTask, NoPatch, i)}
            /\ UNCHANGED <<tasks_db, now, created, served>>

\* complete_task: the two assignments and the return
complete_end(f) ==
    /\ f.op = "complete"
    /\ tasks_db' = [tasks_db EXCEPT ![f.read] = Completed(tasks_db[f.read], now)]
    /\ served' = served + 1
    /\ running' = running \ {f}
    /\ UNCHANGED <<now, created>>

\* delete_task up to the 404 check
delete_begin(task_id) ==
    /\ LoopFree
    /\ LET i == Find(tasks_db, task_id) IN
       IF i = 0
       THEN UNCHANGED vars
       ELSE /\ running' = running \cup
                  {Frame("delete", task_id, NoTask, NoPatch, i)}
            /\ UNCHANGED <<tasks_db, now, created, served>>

\* delete_task: tasks_db.remove(task) and the return
delete_end(f) ==
    /\ f.op = "delete"
    /\ tasks_db' = Remove(tasks_db, tasks_db[f.read])
    /\ running' = running \ {f}
    /\ UNCHANGED <<now, created, served>>

NextLoop ==
    \/ Tick
    \/ \E task \in TaskCreate : create_begin(task)
    \/ \E f \in running : create_end(f)
    \/ \E task_id \in TaskIds, task_update \in TaskUpdate :
          update_begin(task_id, task_update)
    \/ \E f \in running : update_end(f)
    \/ \E task_id \in TaskIds : complete_begin(task_id)
    \/ \E f \in running : complete_end(f)
    \/ \E task_id \in TaskIds : delete_begin(task_id)
    \/ \E f \in running : delete_end(f)

SpecLoop == Init /\ [][NextLoop]_vars

----------------------------------------------------------------------------
\* Vocabulary of the properties

Ids(db) == {db[i].id : i \in 1 .. Len(db)}

Found(db, task_id) == task_id \in Ids(db)

\* the quadrant table of the data model
QuadrantTable(t) ==
    CASE t.is_important = TRUE  /\ t.is_urgent = TRUE  -> "Q1"
      [] t.is_important = TRUE  /\ t.is_urgent = FALSE -> "Q2"
      [] t.is_important = FALSE /\ t.is_urgent = TRUE  -> "Q3"
      [] t.is_important = FALSE /\ t.is_urgent = FALSE -> "Q4"

\* db without its i-th element
Without(db, i) == SubSeq(db, 1, i - 1) \o SubSeq(db, i + 1, Len(db))

\* a step that answered a POST, PUT or PATCH with success
WriteStep == served' # served

\* the position of the task with this id
Pos(db, task_id) == CHOOSE k \in 1 .. Len(db) : db[k].id = task_id

\* the tasks with completed = true, counted one by one
RECURSIVE CountCompleted(_)
CountCompleted(db) ==
    IF db = <<>> THEN 0
    ELSE (IF Head(db).completed = TRUE THEN 1 ELSE 0) + CountCompleted(Tail(db))

----------------------------------------------------------------------------
\* C1: in every reachable state every task's quadrant is the one the table
\* gives for its current is_important and is_urgent; this covers a PUT that
\* sends one flag only, after which the quadrant follows the stored other
\* flag and the new one.
C1_QuadrantMatchesFlags ==
    \A i \in 1 .. Len(tasks_db) :
        tasks_db[i].quadrant = QuadrantTable(tasks_db[i])

\* task 1 (important, urgent, Q1) after the single PUT {title, is_urgent =
\* false}: is_important is the stored one, the quadrant is Q2
C1_Witness ==
    /\ served = 1
    /\ \E i \in 1 .. Len(tasks_db) :
          /\ tasks_db[i].id = 1
          /\ tasks_db[i].title = "X"
          /\ tasks_db[i].is_important = TRUE
          /\ tasks_db[i].is_urgent = FALSE
          /\ tasks_db[i].quadrant = "Q2"

\* C2: create gives id 1 on an empty store and otherwise the largest id in
\* the store plus one, whatever gaps deletes left; the new task goes to the
\* end of the list with completed = false.
C2_CreateAssignsMaxPlusOne ==
    [][\A task \in TaskCreate :
          create_task(task) =>
            LET n == Len(tasks_db)
                new_task == tasks_db'[n + 1]
            IN  /\ Len(tasks_db') = n + 1
                /\ SubSeq(tasks_db', 1, n) = tasks_db
                /\ new_task.completed = FALSE
                /\ n = 0 => new_task.id = 1
                /\ n > 0 =>
                      /\ new_task.id - 1 \in Ids(tasks_db)
                      /\ \A k \in Ids(tasks_db) : k < new_task.id
                /\ created' = Append(created, new_task.id)]_vars

\* the store was emptied by four deletes and the one create got id 1
C2_Witness ==
    /\ created = <<1>>
    /\ Len(tasks_db) = 1
    /\ tasks_db[1].id = 1
    /\ tasks_db[1].title = "X"
    /\ tasks_db[1].completed = FALSE

\* the second create met a store with a gap (2 missing) and got id 6
C2_WitnessGap ==
    /\ created = <<5, 6>>
    /\ Ids(tasks_db) = {1, 3, 4, 5, 6}

\* C3: every create returns an id strictly greater than the id returned by
\* every earlier create.
C3_CreatedIdsIncrease ==
    \A i, j \in 1 .. Len(created) : i < j => created[i] < created[j]

\* C4: no two tasks of the store have the same id, so a lookup by id
\* matches at most one task.
C4_IdsUnique ==
    \A i, j \in 1 .. Len(tasks_db) :
        tasks_db[i].id = tasks_db[j].id => i = j

\* two creates with deletes in between, the second one reusing the id of
\* the first; the store still holds one task per id
C4_Witness ==
    /\ created = <<5, 5>>
    /\ 5 \in Ids(tasks_db)
    /\ Len(tasks_db) >= 3

\* C5: in every reachable state, update of an existing task with any patch
\* writes the fields the patch carries and nothing else: id, created_at,
\* completed_at and every field the patch omits keep their values, the
\* quadrant stays when the patch carries no flag, and the other tasks and
\* the order of the list are unchanged.
C5_UpdateTouchesOnlyPatchedFields ==
    \A task_id \in TaskIds, task_update \in TaskUpdate :
      Found(tasks_db, task_id) =>
        \A after \in {Updated(tasks_db, task_id, task_update)},
           i \in {Pos(tasks_db, task_id)} :
        LET old == tasks_db[i]
            new == after[i]
        IN  /\ Len(after) = Len(tasks_db)
            /\ \A k \in 1 .. Len(tasks_db) : k # i => after[k] = tasks_db[k]
            /\ DOMAIN new = DOMAIN old
            /\ \A f \in PatchFields :
                  new[f] = IF task_update[f] # Absent
                           THEN task_update[f][1] ELSE old[f]
            /\ new.id = old.id
            /\ new.created_at = old.created_at
            /\ new.completed_at = old.completed_at
            /\ (task_update.is_important = Absent /\ task_update.is_urgent = Absent)
                  => new.quadrant = old.quadrant

\* task 2 after the single PUT {title, completed}: the title and the flag
\* are new, description, flags and quadrant are the seeded ones
C5_Witness ==
    /\ served = 1
    /\ \E i \in 1 .. Len(tasks_db) :
          /\ tasks_db[i].id = 2
          /\ tasks_db[i].title = "X"
          /\ tasks_db[i].completed = TRUE
          /\ tasks_db[i].description = "d2"
          /\ tasks_db[i].quadrant = "Q2"

\* C6: complete of an existing task leaves completed = true and
\* completed_at set whatever the task was before and changes nothing else;
\* a get right after returns that task; completing it again changes
\* nothing but completed_at.
C6_CompleteIsIdempotent ==
    [][WriteStep =>
        \A task_id \in TaskIds :
          (Found(tasks_db, task_id) /\ complete_task(task_id)) =>
            LET i == Pos(tasks_db, task_id)
                old == tasks_db[i]
                new == tasks_db'[i]
                got == get_task_by_id(tasks_db', task_id)
            IN  /\ new.completed = TRUE
                /\ new.completed_at # Absent
                /\ \A f \in DOMAIN old \ {"completed", "completed_at"} :
                      new[f] = old[f]
                /\ Len(tasks_db') = Len(tasks_db)
                /\ \A k \in 1 .. Len(tasks_db) : k # i => tasks_db'[k] = tasks_db[k]
                /\ got.status = 200
                /\ got.task[1].completed = TRUE
                /\ got.task[1].completed_at # Absent
                /\ \A t \in 0 .. MaxClock :
                      LET again == Completed(new, t)
                      IN  /\ again.completed = TRUE
                          /\ again.completed_at # Absent
                          /\ again = [new EXCEPT !.completed_at = again.completed_at]]_vars

\* create, then complete of the created task: it is completed and stamped
C6_Witness ==
    /\ created = <<5>>
    /\ served = 2
    /\ \E i \in 1 .. Len(tasks_db) :
          /\ tasks_db[i].id = 5
          /\ tasks_db[i].completed = TRUE
          /\ tasks_db[i].completed_at # Absent

\* C7: delete of an existing task leaves the list as it was with exactly
\* that task taken out, and a get of the id right after is a 404; no step
\* reorders the tasks that stay, and a new task is the last of the list,
\* so the list is in creation order.
C7_DeleteKeepsOrder ==
    [][/\ Len(tasks_db') < Len(tasks_db) =>
            \A task_id \in TaskIds :
              (Found(tasks_db, task_id) /\ delete_task(task_id)) =>
                /\ tasks_db' = Without(tasks_db, Pos(tasks_db, task_id))
                /\ get_task_by_id(tasks_db', task_id).status = 404
       /\ LET before == get_all_tasks(tasks_db).tasks
              after == get_all_tasks(tasks_db').tasks
          IN  \A a, b \in 1 .. Len(after) :
                /\ (/\ a < b
                    /\ Found(before, after[a].id)
                    /\ Found(before, after[b].id))
                     => Pos(before, after[a].id) < Pos(before, after[b].id)
                /\ ~Found(before, after[a].id) => a = Len(after)]_vars

\* a task in the middle was deleted and a task was created afterwards
C7_Witness ==
    /\ created = <<5>>
    /\ Len(tasks_db) = 4
    /\ tasks_db[1].id = 1
    /\ tasks_db[2].id = 3
    /\ tasks_db[3].id = 4
    /\ tasks_db[4].id = 5

\* C8: stats reports total = number of tasks, quadrant counts that add up
\* to total, completed = the tasks with completed = true and pending =
\* total - completed; on the seeded store: 4, one per quadrant, 1 and 3.
C8_StatsAddUp ==
    LET s == get_tasks_stats(tasks_db)
    IN  /\ s.total_tasks = Len(tasks_db)
        /\ s.by_quadrant["Q1"] + s.by_quadrant["Q2"]
             + s.by_quadrant["Q3"] + s.by_quadrant["Q4"] = s.total_tasks
        /\ s.by_status.completed = CountCompleted(tasks_db)
        /\ s.by_status.completed + s.by_status.pending = s.total_tasks
        /\ tasks_db = SeedTasks =>
              s = [total_tasks |-> 4,
                   by_quadrant |-> [q \in {"Q1", "Q2", "Q3", "Q4"} |-> 1],
                   by_status |-> [completed |-> 1, pending |-> 3]]

\* a task was created into Q1 and a seeded task completed: five tasks, two
\* of them in Q1, two completed
C8_Witness ==
    /\ created = <<5>>
    /\ served = 2
    /\ get_tasks_stats(tasks_db).total_tasks = 5
    /\ get_tasks_stats(tasks_db).by_quadrant["Q1"] = 2
    /\ get_tasks_stats(tasks_db).by_status = [completed |-> 2, pending |-> 3]

\* C9 as stated: a task has completed_at set exactly when completed = true.
C9_CompletedAtIffCompleted ==
    \A i \in 1 .. Len(tasks_db) :
        (tasks_db[i].completed_at # Absent) <=> (tasks_db[i].completed = TRUE)

\* C9 amended: completed_at is written by complete alone. No task carries
\* it before the first write, a created task starts without it and with
\* completed = false, and a step that changes a task's completed_at is a
\* complete of that task, which stamps the current time and sets
\* completed = true.
C9_CompletedAtOnlyByComplete ==
    [][/\ served = 0 =>
            \A i \in 1 .. Len(tasks_db) : tasks_db[i].completed_at = Absent
       /\ \A a \in 1 .. Len(tasks_db') :
            LET new == tasks_db'[a] IN
            IF Found(tasks_db, new.id)
            THEN LET old == tasks_db[Pos(tasks_db, new.id)] IN
                 new.completed_at # old.completed_at =>
                   /\ complete_task(new.id)
                   /\ new.completed_at = Some(now)
                   /\ new.completed = TRUE
            ELSE /\ new.completed_at = Absent
                 /\ new.completed = FALSE]_vars

\* a task completed by complete and then patched to completed = false: the
\* stamp stays
C9_Witness ==
    /\ served = 2
    /\ \E i \in 1 .. Len(tasks_db) :
          /\ tasks_db[i].completed = FALSE
          /\ tasks_db[i].completed_at # Absent

====
